---- MODULE Spec2Model ----
(***************************************************************************)
(* The host-side debugger driver of retrowin32's web front end.            *)
(*                                                                         *)
(* The repository holds two debugger pages.  src/unnamed/part_001 is the   *)
(* page with the breakpoint table kept in step with the engine's break     *)
(* set, adaptive batch stepping and frame-by-frame running; its state is   *)
(* the variables breakpoints .. faulted below.  src/unnamed/part_000 is   *)
(* the page whose VM.step removes `temporary' breakpoints and whose run()  *)
(* is one loop; its state is the record vm0.  A session loads one page:    *)
(* the variable program says which.                                        *)
(*                                                                         *)
(* The execution engine (wasm.Emulator / wasm.X86) is an external          *)
(* collaborator.  Each call of one of its stepping primitives is modelled  *)
(* by its outcome, drawn from every outcome the calling code can           *)
(* observe: the new program counter, the exit() host callback it made (if  *)
(* any), whether it threw, and for step_many the ranAll flag.              *)
(*                                                                         *)
(* Scheduling.  One action is one task of the browser's event loop: a      *)
(* click handler, the setState callback or a requestAnimationFrame         *)
(* callback.  preact commits setState in a microtask, so the callback      *)
(* given to setState runs before any other task: every other action waits  *)
(* for cbPending = 0, and Page.state.running is written where setState is  *)
(* called (no handler reads it back after writing it).                     *)
(*                                                                         *)
(* The display layer of part_001 (Window, Surface, VM.create_window and     *)
(* VM.create_surface) is the state windows, surfaces.  The engine calls    *)
(* these host callbacks with arguments the guest chooses; SpecDisplay      *)
(* follows them one callback at a time.  A canvas is its RGBA bytes, the   *)
(* layout of ImageData.data.                                               *)
(*                                                                         *)
(* Not modelled: rendering (forceUpdate, render), VM.instrPerMs (a float   *)
(* that is only displayed), stdout, Window.set_size (it writes the width   *)
(* and height that only rendering reads), and Page.step/Page.updateAfter   *)
(* of part_001, which nothing calls.                                       *)
(***************************************************************************)
EXTENDS Integers, FiniteSets, Sequences, TLC

\* ---------------------------------------------------------------- bounds
\* Doublings of stepSize explored by Spec.
MaxDoublings == 1
\* Doublings of stepSize explored by SpecLong (5000 * 2^29 = 625 * 2^32).
MaxLongDoublings == 30
\* Scheduled runFrame continuations explored at once.
MaxPending == 2
\* Iterations of part_000's run() loop explored in one handler.
MaxRunSteps == 2

\* Windows and canvas pixels (over all surfaces, back-buffers included)
\* explored together by SpecDisplay.
MaxDisplay == 5

\* ------------------------------------------------------- program constants
\* VM.stepSize = 5000
InitialStepSize == 5000
\* if (delta < 10)
TenMs == 10
\* this.addBreak({ addr: 0x40a3a5 })
EntryBreak == 4236197
\* memBase: 0x40_1000, the start of the guest's code
CodeBase == 4198400
\* setInterval's handle: nonzero; only tested against 0 and cleared.
IntervalHandle == 1

Addrs == {CodeBase, EntryBreak}
ExitCodes == {0, 3}
\* An optional value: <<>> for undefined, <<v>> for the value v.
Undefined == <<>>
Some(v) == <<v>>
\* Measured batch durations (end - start), in ms.
Deltas == {9, 10}
\* ImageData.data holds four bytes a pixel: red, green, blue, alpha.
BytesPerPixel == 4
\* Canvas sizes the guest asks for.
Widths == {1, 2}
Heights == {1}
\* The blits the guest asks for, as <<dx, w>>: a row of two pixels to the
\* left edge.
Blits == {<<0, 2>>}

VARIABLES
  program,       \* "part_000" or "part_001": the page this session loaded
  breakpoints,   \* VM.breakpoints: Map<number, Breakpoint>
  engineBreaks,  \* the engine's break set (breakpoint_add / breakpoint_clear)
  eip,           \* emu.eip
  exitCode,      \* VM.exitCode
  stepSize,      \* VM.stepSize, as hi * 2^16 + lo
  running,       \* Page.state.running
  selectedTab,   \* Page.state.selectedTab
  cbPending,     \* pending setState callbacks () => this.runFrame()
  rafPending,    \* pending requestAnimationFrame(() => this.runFrame())
  faulted,       \* history: the last continuous run ended on a caught fault
  vm0,           \* part_000's VM: [breakpoints, eip, exitCode]
  windows,       \* VM.windows: Window[]
  surfaces,      \* every Surface constructed, in order of construction
  last           \* what the last handler did (observation only)

vars == <<program, breakpoints, engineBreaks, eip, exitCode, stepSize,
          running, selectedTab, cbPending, rafPending, faulted, vm0,
          windows, surfaces, last>>

\* ------------------------------------------------------------ Map helpers
MapSet(m, k, v) == [x \in (DOMAIN m) \cup {k} |-> IF x = k THEN v ELSE m[x]]
MapDelete(m, k) == [x \in (DOMAIN m) \ {k} |-> m[x]]
EmptyMap == [x \in {} |-> Undefined]

\* ------------------------------------------------- stepSize: wide integers
\* A JS number holds 5000 * 2^k exactly; the model checker's integers are
\* 32 bits wide, so the value is kept as hi * 2^16 + lo.
Limb == 2^16
Wide(n) == [hi |-> n \div Limb, lo |-> n % Limb]
Double(n) == [hi |-> 2 * n.hi + ((2 * n.lo) \div Limb), lo |-> (2 * n.lo) % Limb]
Less(a, b) == a.hi < b.hi \/ (a.hi = b.hi /\ a.lo < b.lo)
\* A number as a u32: modulo 2^32.
ToU32(n) == [hi |-> n.hi % Limb, lo |-> n.lo]
RECURSIVE StepSizeAfter(_)
StepSizeAfter(k) == IF k = 0 THEN Wide(InitialStepSize) ELSE Double(StepSizeAfter(k - 1))

\* ------------------------------------------------------------ the state
\* The driver's state as one record, so that each method is an operator
\* from state to state.
Cur ==
  [breakpoints |-> breakpoints, engineBreaks |-> engineBreaks, eip |-> eip,
   exitCode |-> exitCode, stepSize |-> stepSize,
   running |-> running, selectedTab |-> selectedTab,
   cbPending |-> cbPending, rafPending |-> rafPending, faulted |-> faulted]

Commit(s) ==
  /\ breakpoints' = s.breakpoints
  /\ engineBreaks' = s.engineBreaks
  /\ eip' = s.eip
  /\ exitCode' = s.exitCode
  /\ stepSize' = s.stepSize
  /\ running' = s.running
  /\ selectedTab' = s.selectedTab
  /\ cbPending' = s.cbPending
  /\ rafPending' = s.rafPending
  /\ faulted' = s.faulted

Breakpoints == [addr : Addrs, disabled : BOOLEAN, oneShot : BOOLEAN]

\* What a handler did: the operation, what the VM method returned ("true",
\* "false", "threw", "skipped" or "none"), the engine primitive it invoked,
\* whether an exception left the handler, and for a batch its ranAll flag
\* and measured duration.
Obs(op, ret, engine, uncaught, ranAll, delta) ==
  [op |-> op, ret |-> ret, engine |-> engine, uncaught |-> uncaught,
   ranAll |-> ranAll, delta |-> delta]
Quiet(op) == Obs(op, "none", "none", FALSE, FALSE, 0)
Bool(b) == IF b THEN "true" ELSE "false"

\* ------------------------------------------------------------ the engine
\* The exit callback an engine call made: none, or exit(code).
ExitCalls == {Undefined} \cup {Some(c) : c \in ExitCodes}
\* Outcomes of emu.step(): the new eip, the exit callback made, a throw.
StepOutcomes == [eip : Addrs, exit : ExitCalls, fault : BOOLEAN]
\* The engine's step primitive with its host callbacks: exit(code) sets
\* VM.exitCode.
emuRun(s, out) ==
  [s EXCEPT !.eip = out.eip,
            !.exitCode = IF out.exit = Undefined THEN @ ELSE out.exit]

\* -------------------------------------------------------- VM (part_001)
addBreak(s, bp) ==
  [s EXCEPT !.breakpoints = MapSet(@, bp.addr, bp),
            !.engineBreaks = @ \cup {bp.addr}]

delBreak(s, addr) ==
  [s EXCEPT !.breakpoints = MapDelete(@, addr),
            !.engineBreaks = @ \ {addr}]

\* The body of VM.toggleBreak once breakpoints.get(addr) found an entry.
toggleBreak(s, addr) ==
  LET d == ~s.breakpoints[addr].disabled IN
  [s EXCEPT !.breakpoints[addr].disabled = d,
            !.engineBreaks = IF d THEN @ \ {addr} ELSE @ \cup {addr}]

\* A toggleBreak that makes up a disabled entry for an unregistered address.
tryToggleBreakCreates(s, addr) ==
  IF addr \in DOMAIN s.breakpoints
  THEN [st |-> toggleBreak(s, addr), ret |-> "none"]
  ELSE [st |-> [s EXCEPT !.breakpoints =
                           MapSet(@, addr, [addr |-> addr, disabled |-> TRUE,
                                            oneShot |-> FALSE]),
                         !.engineBreaks = @ \ {addr}],
        ret |-> "none"]

\* VM.toggleBreak as its caller sees it.  On an unregistered address
\* breakpoints.get(addr)! is undefined and reading bp.disabled throws a
\* TypeError before the table or the engine is touched.
tryToggleBreak(s, addr) ==
  IF addr \in DOMAIN s.breakpoints
  THEN [st |-> toggleBreak(s, addr), ret |-> "none"]
  ELSE [st |-> s, ret |-> "threw"]

\* checkBreak that forgets to remove a one-shot breakpoint it hit.
checkBreakKeepsOneShot(s) ==
  IF s.exitCode # Undefined THEN [st |-> s, ret |-> TRUE]
  ELSE IF s.eip \in DOMAIN s.breakpoints /\ ~s.breakpoints[s.eip].disabled
       THEN [st |-> [s EXCEPT !.selectedTab = "breakpoints"], ret |-> TRUE]
       ELSE [st |-> s, ret |-> FALSE]

\* checkBreak that does not look at the disabled flag (as part_000's step).
checkBreakIgnoresDisabled(s) ==
  IF s.exitCode # Undefined THEN [st |-> s, ret |-> TRUE]
  ELSE IF s.eip \in DOMAIN s.breakpoints
       THEN IF s.breakpoints[s.eip].oneShot
            THEN [st |-> delBreak(s, s.breakpoints[s.eip].addr), ret |-> TRUE]
            ELSE [st |-> [s EXCEPT !.selectedTab = "breakpoints"], ret |-> TRUE]
       ELSE [st |-> s, ret |-> FALSE]

\* checkBreak: the state after it, and what it returned.
checkBreak(s) ==
  IF s.exitCode # Undefined THEN [st |-> s, ret |-> TRUE]
  ELSE IF s.eip \in DOMAIN s.breakpoints /\ ~s.breakpoints[s.eip].disabled
       THEN IF s.breakpoints[s.eip].oneShot
            THEN [st |-> delBreak(s, s.breakpoints[s.eip].addr), ret |-> TRUE]
            ELSE [st |-> [s EXCEPT !.selectedTab = "breakpoints"], ret |-> TRUE]
       ELSE [st |-> s, ret |-> FALSE]

\* VM.step under the engine outcome out.
step(s, out) ==
  IF out.fault
  THEN [st |-> emuRun(s, out), ret |-> "threw"]
  ELSE LET c == checkBreak(emuRun(s, out)) IN
       [st |-> c.st, ret |-> Bool(~c.ret)]

\* Outcomes of emu.step_many(n) the caller can observe.  A batch that threw
\* has no ranAll and no measured duration.  A batch reported as cut short
\* (ranAll = FALSE) stopped at an address of the engine's break set, or
\* after the guest called exit.
BatchOutcomes(s) ==
  {o \in [eip : Addrs, exit : ExitCalls, fault : BOOLEAN,
          ranAll : BOOLEAN, delta : Deltas \cup {0}] :
     /\ o.fault => (~o.ranAll /\ o.delta = 0)
     /\ ~o.fault => o.delta \in Deltas
     /\ (~o.fault /\ ~o.ranAll) => (o.eip \in s.engineBreaks \/ o.exit # Undefined)}

\* The threshold test written with <= in place of <.
UnderTenInclusive(delta) == delta <= TenMs
\* if (delta < 10)
UnderTen(delta) == delta < TenMs

\* The count this.emu.step_many(this.stepSize) hands to the engine: the wasm
\* boundary takes it as a u32.
batchArg(s) == ToU32(s.stepSize)

\* VM.stepMany under the engine outcome out.
stepMany(s, out) ==
  LET s1 == emuRun(s, out) IN
  IF out.fault THEN [st |-> s1, ret |-> "threw"]
  ELSE IF ~out.ranAll
       THEN LET c == checkBreak(s1) IN [st |-> c.st, ret |-> Bool(~c.ret)]
       ELSE [st |-> [s1 EXCEPT !.stepSize = IF UnderTen(out.delta) THEN Double(@) ELSE @],
             ret |-> "true"]

\* ------------------------------------------------------ Page (part_001)
startStop(s, start) ==
  IF start = (s.running # 0) THEN s
  ELSE IF start
       THEN [s EXCEPT !.running = IntervalHandle, !.cbPending = @ + 1,
                      !.faulted = FALSE]
       ELSE [s EXCEPT !.running = 0]

\* runFrame without its first line, if (!this.state.running) return.
runFrameIgnoresStop(s, out) ==
  LET r == stepMany(s, out)
      caught == [r.st EXCEPT !.faulted = TRUE]
      obs == Obs("runFrame", r.ret, "step_many", FALSE, out.ranAll, out.delta)
  IN IF r.ret = "threw" THEN [st |-> startStop(caught, FALSE), obs |-> obs]
     ELSE IF r.ret = "false" THEN [st |-> startStop(r.st, FALSE), obs |-> obs]
     ELSE [st |-> [r.st EXCEPT !.rafPending = @ + 1], obs |-> obs]

\* runFrame whose catch block logs the fault and carries on (stop = false).
runFrameCarriesOn(s, out) ==
  IF s.running = 0
  THEN [st |-> s, obs |-> Obs("runFrame", "skipped", "none", FALSE, FALSE, 0)]
  ELSE LET r == stepMany(s, out)
           caught == [r.st EXCEPT !.faulted = TRUE]
           obs == Obs("runFrame", r.ret, "step_many", FALSE, out.ranAll, out.delta)
       IN IF r.ret = "threw" THEN [st |-> [caught EXCEPT !.rafPending = @ + 1], obs |-> obs]
          ELSE IF r.ret = "false" THEN [st |-> startStop(r.st, FALSE), obs |-> obs]
          ELSE [st |-> [r.st EXCEPT !.rafPending = @ + 1], obs |-> obs]

\* Page.runFrame under the engine outcome out (used only when it runs a
\* batch): the state after it and what it observed.
runFrame(s, out) ==
  IF s.running = 0
  THEN [st |-> s, obs |-> Obs("runFrame", "skipped", "none", FALSE, FALSE, 0)]
  ELSE LET r == stepMany(s, out)
           caught == [r.st EXCEPT !.faulted = TRUE]
           obs == Obs("runFrame", r.ret, "step_many", FALSE, out.ranAll, out.delta)
       IN IF r.ret = "threw" THEN [st |-> startStop(caught, FALSE), obs |-> obs]
          ELSE IF r.ret = "false" THEN [st |-> startStop(r.st, FALSE), obs |-> obs]
          ELSE [st |-> [r.st EXCEPT !.rafPending = @ + 1], obs |-> obs]

runTo(s, addr) ==
  startStop(addBreak(s, [addr |-> addr, disabled |-> FALSE, oneShot |-> TRUE]), TRUE)

\* -------------------------------------------------------- VM (part_000)
emuRun0(v, out) ==
  [v EXCEPT !.eip = out.eip,
            !.exitCode = IF out.exit = Undefined THEN @ ELSE out.exit]

\* part_000's VM.step under the engine outcome out.
step0(v, out) ==
  LET v1 == emuRun0(v, out) IN
  IF out.fault THEN [st |-> v1, ret |-> "threw"]
  ELSE IF v1.exitCode # Undefined THEN [st |-> v1, ret |-> "false"]
  ELSE IF v1.eip \in DOMAIN v1.breakpoints
       THEN [st |-> IF v1.breakpoints[v1.eip].temporary
                    THEN [v1 EXCEPT !.breakpoints =
                                      MapDelete(@, v1.breakpoints[v1.eip].addr)]
                    ELSE v1,
             ret |-> "false"]
       ELSE [st |-> v1, ret |-> "true"]

\* part_000's Page.run: for (;;) { if (!vm.step()) break; } fed with the
\* engine outcomes outs.  ret = "true" says the loop wants another outcome;
\* rest is what it left unused.
RECURSIVE run0(_, _)
run0(v, outs) ==
  LET r == step0(v, Head(outs)) IN
  IF r.ret # "true" \/ Tail(outs) = <<>>
  THEN [st |-> r.st, ret |-> r.ret, rest |-> Tail(outs)]
  ELSE run0(r.st, Tail(outs))

\* The outcome sequences on which the loop ends, using them all.
RunOutcomes(v) ==
  {outs \in UNION {[1..n -> StepOutcomes] : n \in 1..MaxRunSteps} :
     LET r == run0(v, outs) IN r.ret # "true" /\ r.rest = <<>>}

runTo0(v, addr, outs) ==
  run0([v EXCEPT !.breakpoints = MapSet(@, addr, [addr |-> addr, temporary |-> TRUE])],
       outs)

\* ------------------------------------------------ display layer (part_001)
\* The display state the operators below work on.
Display == [windows |-> windows, surfaces |-> surfaces]

\* What a host callback hands back: the display state after it, whether it
\* threw, and the window or surface it returned (0: none).
Result(d, threw, ref) == [st |-> d, threw |-> threw, ref |-> ref]

\* A pixel: red, green, blue, alpha.
Black == <<0, 0, 0, 255>>
\* ctx.fillStyle = 'black'; ctx.fillRect(0, 0, 640, 480) on a new canvas
\* (the canvases here lie inside 640 x 480).
Filled(width, height) ==
  [k \in 1..(width * height * BytesPerPixel) |-> Black[((k - 1) % BytesPerPixel) + 1]]

\* new ImageData(width, height); data.data.set(pixels): the bytes of pixels
\* followed by the zero bytes a new ImageData holds.  (TypedArray.set throws
\* a RangeError when pixels is longer than data.data; see write_pixels.)
ImageDataSet(width, height, pixels) ==
  [k \in 1..(width * height * BytesPerPixel) |->
     IF k <= Len(pixels) THEN pixels[k] ELSE 0]

\* The pixel at (x, y) of a surface's canvas.
Px(surface, x, y) ==
  LET o == (y * surface.width + x) * BytesPerPixel IN
  <<surface.pixels[o + 1], surface.pixels[o + 2], surface.pixels[o + 3],
    surface.pixels[o + 4]>>

\* drawImage composites with the context's default operation, source-over:
\* an opaque source pixel replaces the destination's, a transparent one
\* leaves it.  (Alpha is 0 or 255 in every canvas here.)
SourceOver(src, dst) == IF src[4] = 255 THEN src ELSE dst

\* this.ctx.drawImage(other.canvas, sx, sy, w, h, dx, dy, w, h) on the
\* surface dst: the bytes of dst's canvas afterwards.  The part of the
\* source rectangle outside the source canvas draws nothing.
drawImage(dst, src, sx, sy, w, h, dx, dy) ==
  [k \in 1..Len(dst.pixels) |->
     LET p == (k - 1) \div BytesPerPixel
         c == ((k - 1) % BytesPerPixel) + 1
         x == p % dst.width
         y == p \div dst.width
         u == x - dx + sx
         v == y - dy + sy
     IN IF /\ x - dx \in 0..(w - 1) /\ y - dy \in 0..(h - 1)
           /\ u \in 0..(src.width - 1) /\ v \in 0..(src.height - 1)
        THEN SourceOver(Px(src, u, v), Px(dst, x, y))[c]
        ELSE dst.pixels[k]]

\* One Surface object.  primary records the constructor's argument; back is
\* the index in surfaces of the Surface in this.back.
SurfaceObject(width, height, primary, back) ==
  [width |-> width, height |-> height, primary |-> primary, back |-> back,
   pixels |-> Filled(width, height)]

\* A Surface constructor that builds the back-buffer with width and height
\* exchanged.
SurfaceTransposedBack(heap, width, height, primary) ==
  IF primary
  THEN heap \o <<SurfaceObject(height, width, FALSE, Undefined),
                 SurfaceObject(width, height, TRUE, Some(Len(heap) + 1))>>
  ELSE Append(heap, SurfaceObject(width, height, FALSE, Undefined))

\* new Surface(width, height, primary): the heap of surfaces afterwards.  A
\* primary surface constructs its back-buffer first; the new surface is the
\* last of the heap.
Surface(heap, width, height, primary) ==
  IF primary
  THEN heap \o <<SurfaceObject(width, height, FALSE, Undefined),
                 SurfaceObject(width, height, TRUE, Some(Len(heap) + 1))>>
  ELSE Append(heap, SurfaceObject(width, height, FALSE, Undefined))

\* Surface.write_pixels on surface i.
write_pixels(d, i, pixels) ==
  LET s == d.surfaces[i] IN
  IF Len(pixels) > Len(s.pixels) THEN Result(d, TRUE, 0)
  ELSE Result([d EXCEPT !.surfaces[i].pixels =
                          ImageDataSet(s.width, s.height, pixels)], FALSE, 0)

\* Surface.get_attached on surface i.
get_attached(d, i) ==
  IF d.surfaces[i].back = Undefined THEN Result(d, TRUE, 0)
  ELSE Result(d, FALSE, d.surfaces[i].back[1])

\* A flip that draws nothing when there is no back-buffer.
flipWithoutBack(d, i) ==
  LET s == d.surfaces[i] IN
  IF s.back = Undefined THEN Result(d, FALSE, 0)
  ELSE LET b == d.surfaces[s.back[1]] IN
       Result([d EXCEPT !.surfaces[i].pixels =
                          drawImage(s, b, 0, 0, b.width, b.height, 0, 0)], FALSE, 0)

\* Surface.flip on surface i: this.ctx.drawImage(this.back.canvas, 0, 0).
flip(d, i) ==
  LET s == d.surfaces[i] IN
  IF s.back = Undefined THEN Result(d, TRUE, 0)
  ELSE LET b == d.surfaces[s.back[1]] IN
       Result([d EXCEPT !.surfaces[i].pixels =
                          drawImage(s, b, 0, 0, b.width, b.height, 0, 0)], FALSE, 0)

\* Surface.bit_blt on surface i, from surface other.
bit_blt(d, i, dx, dy, other, sx, sy, w, h) ==
  Result([d EXCEPT !.surfaces[i].pixels =
            drawImage(d.surfaces[i], d.surfaces[other], sx, sy, w, h, dx, dy)],
         FALSE, 0)

\* new Window(key)
Window(key) ==
  [key |-> key, title |-> "", width |-> 0, height |-> 0, surface |-> Undefined]

\* A create_window that gives every window the key 1.
create_windowSameKey(d) ==
  LET id == Len(d.windows) + 1 IN
  Result([d EXCEPT !.windows = Append(@, Window(1))], FALSE, id)

\* VM.create_window: the window returned is this.windows[id - 1].
create_window(d) ==
  LET id == Len(d.windows) + 1 IN
  Result([d EXCEPT !.windows = Append(@, Window(id))], FALSE, id)

\* VM.create_surface.  With primary set and no window yet,
\* this.windows[this.windows.length - 1] is undefined and the assignment
\* throws; the surfaces just constructed are then unreachable.
create_surface(d, width, height, primary) ==
  LET heap == Surface(d.surfaces, width, height, primary) IN
  IF ~primary THEN Result([d EXCEPT !.surfaces = heap], FALSE, Len(heap))
  ELSE IF d.windows = <<>> THEN Result(d, TRUE, 0)
  ELSE Result([d EXCEPT !.surfaces = heap,
                        !.windows[Len(d.windows)].surface = Some(Len(heap))],
              FALSE, Len(heap))

\* ------------------------------------------------------------- actions
Init ==
  /\ program \in {"part_000", "part_001"}
  /\ breakpoints = MapSet(EmptyMap, EntryBreak,
                          [addr |-> EntryBreak, disabled |-> FALSE, oneShot |-> FALSE])
  /\ engineBreaks = {EntryBreak}
  /\ eip \in Addrs
  /\ exitCode = Undefined
  /\ stepSize = Wide(InitialStepSize)
  /\ running = 0
  /\ selectedTab = "output"
  /\ cbPending = 0
  /\ rafPending = 0
  /\ faulted = FALSE
  /\ vm0 = [breakpoints |-> EmptyMap, eip |-> eip, exitCode |-> Undefined]
  /\ windows = <<>>
  /\ surfaces = <<>>
  /\ last = Quiet("init")

\* The caller adds a breakpoint (VM.addBreak).
AddBreak ==
  /\ program = "part_001" /\ cbPending = 0
  /\ \E bp \in Breakpoints :
       /\ Commit(addBreak(Cur, bp))
       /\ last' = Quiet("addBreak")
  /\ UNCHANGED <<program, vm0, windows, surfaces>>

\* The caller removes a breakpoint (VM.delBreak).
DelBreak ==
  /\ program = "part_001" /\ cbPending = 0
  /\ \E addr \in Addrs :
       /\ Commit(delBreak(Cur, addr))
       /\ last' = Quiet("delBreak")
  /\ UNCHANGED <<program, vm0, windows, surfaces>>

\* The breakpoints tab's toggle: vm.toggleBreak(addr); forceUpdate().  A
\* throw of toggleBreak leaves the handler uncaught.
ToggleBreak ==
  /\ program = "part_001" /\ cbPending = 0
  /\ \E addr \in Addrs :
       LET r == tryToggleBreak(Cur, addr) IN
       /\ Commit(r.st)
       /\ last' = Obs("toggleBreak", r.ret, "none", r.ret = "threw", FALSE, 0)
  /\ UNCHANGED <<program, vm0, windows, surfaces>>

\* The step button: this.props.vm.step(); this.forceUpdate().
StepClick ==
  /\ program = "part_001" /\ cbPending = 0
  /\ \E out \in StepOutcomes :
       LET r == step(Cur, out) IN
       /\ Commit(r.st)
       /\ last' = Obs("step", r.ret, "step", r.ret = "threw", FALSE, 0)
  /\ UNCHANGED <<program, vm0, windows, surfaces>>

\* The run/stop button: this.startStop(!this.state.running).
StartStopClick ==
  /\ program = "part_001" /\ cbPending = 0
  /\ running = 0 => cbPending + rafPending < MaxPending
  /\ Commit(startStop(Cur, running = 0))
  /\ last' = Quiet(IF running = 0 THEN "start" ELSE "stop")
  /\ UNCHANGED <<program, vm0, windows, surfaces>>

\* Step over, and the code pane's run-to: this.runTo(addr).
RunTo ==
  /\ program = "part_001" /\ cbPending = 0
  /\ running = 0 => cbPending + rafPending < MaxPending
  /\ \E addr \in Addrs :
       /\ Commit(runTo(Cur, addr))
       /\ last' = Quiet("runTo")
  /\ UNCHANGED <<program, vm0, windows, surfaces>>

\* One scheduling turn: runFrame on the state s, which no longer counts the
\* continuation being run.  cap bounds the doublings of stepSize.  A turn
\* that finds running = 0 makes no engine call, so one outcome stands for all.
Turn(s, cap) ==
  /\ \E out \in (IF s.running = 0 THEN {CHOOSE o \in BatchOutcomes(s) : o.fault}
                 ELSE BatchOutcomes(s)) :
       /\ (~out.fault /\ out.ranAll /\ UnderTen(out.delta))
            => Less(s.stepSize, StepSizeAfter(cap))
       /\ LET r == runFrame(s, out) IN
          /\ Commit(r.st)
          /\ last' = r.obs
  /\ UNCHANGED <<program, vm0, windows, surfaces>>

\* The callback given to setState in startStop: () => this.runFrame().
RunFrameCallback(cap) ==
  /\ program = "part_001" /\ cbPending > 0
  /\ Turn([Cur EXCEPT !.cbPending = @ - 1], cap)

\* requestAnimationFrame(() => this.runFrame()) fires.
RunFrameRAF(cap) ==
  /\ program = "part_001" /\ cbPending = 0 /\ rafPending > 0
  /\ Turn([Cur EXCEPT !.rafPending = @ - 1], cap)

Unchanged1 ==
  UNCHANGED <<program, breakpoints, engineBreaks, eip, exitCode, stepSize,
              running, selectedTab, cbPending, rafPending, faulted,
              windows, surfaces>>

\* part_000's step button: this.props.vm.step(); this.forceUpdate().
Step0Click ==
  /\ program = "part_000"
  /\ \E out \in StepOutcomes :
       LET r == step0(vm0, out) IN
       /\ vm0' = r.st
       /\ last' = Obs("step0", r.ret, "step", r.ret = "threw", FALSE, 0)
  /\ Unchanged1

\* part_000's run button: this.run().
Run0Click ==
  /\ program = "part_000"
  /\ \E outs \in RunOutcomes(vm0) :
       LET r == run0(vm0, outs) IN
       /\ vm0' = r.st
       /\ last' = Obs("run0", r.ret, "step", r.ret = "threw", FALSE, 0)
  /\ Unchanged1

\* part_000's step over and run-to: this.runTo(addr).
RunTo0 ==
  /\ program = "part_000"
  /\ \E addr \in Addrs :
       LET armed == [vm0 EXCEPT !.breakpoints =
                                  MapSet(@, addr, [addr |-> addr, temporary |-> TRUE])]
       IN \E outs \in RunOutcomes(armed) :
            LET r == runTo0(vm0, addr, outs) IN
            /\ vm0' = r.st
            /\ last' = Obs("runTo0", r.ret, "step", r.ret = "threw", FALSE, 0)
  /\ Unchanged1

\* ------------------------------------------------- host callbacks (display)
\* The pixel buffers the guest hands to write_pixels: an opaque and a
\* transparent white pixel, a buffer one byte short of a pixel, one a byte
\* longer, and two pixels.
White == <<255, 255, 255, 255>>
Clear == <<255, 255, 255, 0>>
Buffers ==
  {White, Clear, SubSeq(White, 1, 3), White \o <<255>>, White \o Clear}

\* The canvas pixels the surfaces of heap hold together.
RECURSIVE PixelCount(_)
PixelCount(heap) ==
  IF heap = <<>> THEN 0
  ELSE heap[1].width * heap[1].height + PixelCount(Tail(heap))

DisplayUnchanged ==
  UNCHANGED <<program, breakpoints, engineBreaks, eip, exitCode, stepSize,
              running, selectedTab, cbPending, rafPending, faulted, vm0>>

\* A host callback returned r: the display state is r.st.
Called(op, r) ==
  /\ windows' = r.st.windows
  /\ surfaces' = r.st.surfaces
  /\ last' = Obs(op, IF r.threw THEN "threw" ELSE "none", "none", FALSE, FALSE, 0)
  /\ DisplayUnchanged

\* The engine calls host.create_window().
CreateWindow ==
  /\ program = "part_001"
  /\ Len(windows) + PixelCount(surfaces) < MaxDisplay
  /\ Called("create_window", create_window(Display))

\* The engine calls host.create_surface(opts).
CreateSurface ==
  /\ program = "part_001"
  /\ \E width \in Widths, height \in Heights, primary \in BOOLEAN :
       /\ Len(windows) + PixelCount(surfaces)
            + (IF primary THEN 2 ELSE 1) * width * height <= MaxDisplay
       /\ Called("create_surface", create_surface(Display, width, height, primary))

\* The engine calls write_pixels on a surface it holds.
WritePixels ==
  /\ program = "part_001"
  /\ \E i \in 1..Len(surfaces), pixels \in Buffers :
       Called("write_pixels", write_pixels(Display, i, pixels))

\* The engine calls get_attached on a surface it holds.
GetAttached ==
  /\ program = "part_001"
  /\ \E i \in 1..Len(surfaces) :
       Called("get_attached", get_attached(Display, i))

\* The engine calls flip on a surface it holds.
Flip ==
  /\ program = "part_001"
  /\ \E i \in 1..Len(surfaces) :
       Called("flip", flip(Display, i))

\* The engine calls bit_blt on a surface it holds.
BitBlt ==
  /\ program = "part_001"
  /\ \E i \in 1..Len(surfaces), other \in 1..Len(surfaces),
        r \in Blits :
       Called("bit_blt", bit_blt(Display, i, r[1], 0, other, 0, 0, r[2], 1))

Next ==
  \/ AddBreak
  \/ DelBreak
  \/ ToggleBreak
  \/ StepClick
  \/ StartStopClick
  \/ RunTo
  \/ RunFrameCallback(MaxDoublings)
  \/ RunFrameRAF(MaxDoublings)
  \/ Step0Click
  \/ Run0Click
  \/ RunTo0

Spec == Init /\ [][Next]_vars

\* A session of part_001 in which the user only starts and stops continuous
\* running, followed through many doublings of stepSize.
InitLong == Init /\ program = "part_001"

NextLong ==
  \/ StartStopClick
  \/ RunFrameCallback(MaxLongDoublings)
  \/ RunFrameRAF(MaxLongDoublings)

SpecLong == InitLong /\ [][NextLong]_vars

\* The display layer on its own: the host callbacks the engine makes on
\* windows and surfaces, while the debugger is left alone.
InitDisplay == Init /\ program = "part_001" /\ eip = CodeBase

NextDisplay ==
  \/ CreateWindow
  \/ CreateSurface
  \/ WritePixels
  \/ GetAttached
  \/ Flip
  \/ BitBlt

SpecDisplay == InitDisplay /\ [][NextDisplay]_vars

\* ------------------------------------------------------------- claims
driverVars ==
  <<breakpoints, engineBreaks, eip, exitCode, stepSize, running, selectedTab,
    cbPending, rafPending>>

\* The addresses whose table entry exists and is not disabled.
EnabledInTable == {a \in DOMAIN breakpoints : ~breakpoints[a].disabled}

\* C1 (as claimed): the engine's break set is exactly the set of addresses
\* whose table entry exists and has disabled = false, whatever breakpoints
\* were added, removed, toggled or removed as one-shots.
C1_EngineSetMatchesTable == engineBreaks = EnabledInTable

\* An enabled one-shot entry of table m at address a.
OneShotAt(m, a) == a \in DOMAIN m /\ m[a].oneShot /\ ~m[a].disabled
\* A temporary entry of part_000's table m at address a.
TemporaryAt(m, a) == a \in DOMAIN m /\ m[a].temporary

C3_StepAfterExitIsNoOp ==
  [][(exitCode # Undefined /\ last'.op = "step")
       => (last'.ret = "false" /\ last'.engine = "none" /\ UNCHANGED driverVars)]_vars

\* C4 (as claimed): exitCode is assigned at most once; once it is set no
\* turn invokes step_many; and a turn whose batch set it does not report
\* "may continue" and leaves Running.
C4_ExitIsTerminal ==
  [][/\ exitCode # Undefined => exitCode' = exitCode
     /\ (exitCode # Undefined /\ last'.op = "runFrame") => last'.engine = "none"
     /\ (last'.op = "runFrame" /\ last'.engine = "step_many" /\ exitCode' # Undefined)
          => (last'.ret # "true" /\ running' = 0)]_vars

Val(n) == n.hi * Limb + n.lo

\* C6 (as claimed): every stepMany call that measured under 10 ms exactly
\* doubles stepSize and every other call leaves it unchanged, whether or not
\* the engine stopped early.
C6_DoublingLawEveryCall ==
  [][(last'.engine = "step_many" /\ last'.ret # "threw")
       => IF last'.delta < TenMs
          THEN Val(stepSize') = 2 * Val(stepSize)
          ELSE stepSize' = stepSize]_vars

\* C6 (amended): a stepMany call in which the engine ran the whole batch
\* exactly doubles stepSize when the batch took under 10 ms and leaves it
\* unchanged when it took 10 ms or more; a call the engine cut short leaves
\* stepSize unchanged whatever it took.
C6_DoublingLawFullBatches ==
  [][(last'.engine = "step_many" /\ last'.ret # "threw")
       => IF last'.ranAll /\ last'.delta < TenMs
          THEN Val(stepSize') = 2 * Val(stepSize)
          ELSE stepSize' = stepSize]_vars

\* A full batch that took under 10 ms has doubled stepSize.
C6_Witness ==
  /\ last.engine = "step_many" /\ last.ranAll /\ last.delta < TenMs
  /\ Val(stepSize) = 2 * InitialStepSize

\* The count the next stepMany call hands to the engine.
BatchArgNow == batchArg(Cur)

\* C7 (as claimed): the batch size handed to the engine, a u32, is at least
\* 1 and never smaller than the one handed by an earlier call.
C7_BatchSizeNeverShrinks ==
  [][/\ BatchArgNow' # Wide(0)
     /\ ~Less(BatchArgNow', BatchArgNow)]_vars

\* C8 (as claimed): at most one runFrame continuation is pending at any time.
C8_AtMostOnePending == cbPending + rafPending <= 1

\* C9: a turn that finds the stop flag set makes no engine call, changes
\* nothing and schedules nothing; while the driver stays stopped no turn is
\* scheduled; and stopping itself touches neither the engine's state nor
\* the scheduled turns.
C9_StopObservedBetweenTurns ==
  [][/\ (last'.op = "runFrame" /\ running = 0)
          => /\ last'.engine = "none" /\ running' = 0
             /\ cbPending' + rafPending' = cbPending + rafPending - 1
             /\ UNCHANGED <<breakpoints, engineBreaks, eip, exitCode, stepSize>>
     /\ (running = 0 /\ running' = 0)
          => cbPending' + rafPending' <= cbPending + rafPending
     /\ last'.op = "stop"
          => /\ running' = 0 /\ last'.engine = "none"
             /\ UNCHANGED <<breakpoints, engineBreaks, eip, exitCode, stepSize,
                            cbPending, rafPending>>]_vars

\* The turn scheduled before a stop has run, skipped its batch and left
\* nothing scheduled.
C9_Witness ==
  /\ last.op = "runFrame" /\ last.ret = "skipped"
  /\ running = 0 /\ cbPending + rafPending = 0

\* C10: a turn whose batch threw leaves Running, schedules no turn and lets
\* no exception out of the handler; in the state it leaves the step button
\* is accepted, and any step after it runs the engine's step primitive.
C10_FaultStopsRunning ==
  [][/\ (last'.op = "runFrame" /\ last'.ret = "threw")
          => /\ running' = 0 /\ faulted' /\ ~last'.uncaught
             /\ cbPending' + rafPending' = cbPending + rafPending - 1
     /\ (faulted /\ last.op = "runFrame") => ENABLED StepClick
     /\ (faulted /\ last'.op = "step") => last'.engine = "step"]_vars

\* After a turn ended on a fault, a single step has run and returned.
C10_Witness ==
  /\ faulted /\ running = 0
  /\ last.op = "step" /\ last.engine = "step" /\ last.ret # "threw"

\* C11: toggleBreak on an address that has no entry in the table fails (it
\* throws) and changes nothing: no entry is created, the engine's break set
\* is as before and no engine call is made.
C11_ToggleUnregisteredFails ==
  [][/\ \A a \in Addrs \ DOMAIN breakpoints :
          tryToggleBreak(Cur, a) = [st |-> Cur, ret |-> "threw"]
     /\ (last'.op = "toggleBreak" /\ last'.ret = "threw")
          => /\ UNCHANGED driverVars
             /\ last'.engine = "none"
             /\ DOMAIN breakpoints # Addrs]_vars

\* A toggle has just failed on an unregistered address.
C11_Witness ==
  /\ last.op = "toggleBreak" /\ last.ret = "threw" /\ last.uncaught
  /\ DOMAIN breakpoints # Addrs

\* C12 (as claimed): for every registered address and every state of its
\* entry, one toggleBreak negates the disabled flag and two successive
\* toggleBreak calls restore both the flag and the address's membership of
\* the engine's break set.
C12_ToggleTwiceRestores ==
  \A a \in DOMAIN breakpoints :
    LET r1 == tryToggleBreak(Cur, a)
        r2 == tryToggleBreak(r1.st, a)
    IN /\ r1.ret = "none" /\ r2.ret = "none"
       /\ r1.st.breakpoints[a].disabled = ~breakpoints[a].disabled
       /\ r2.st.breakpoints[a] = breakpoints[a]
       /\ (a \in r2.st.engineBreaks) <=> (a \in engineBreaks)

\* C13 (as claimed): a window's surface, once bound, is never replaced or
\* cleared, not even by a later create_surface with primary set.
C13_BindingSetOnce ==
  [][\A k \in 1..Len(windows) :
       windows[k].surface # Undefined
         => /\ k <= Len(windows')
            /\ windows'[k].surface = windows[k].surface]_vars

\* The number of bytes a surface's canvas holds.
ByteLength(s) == s.width * s.height * BytesPerPixel

\* C14: every surface constructed with primary set owns one back-buffer of
\* its own width and height, which is no other surface's and has no
\* back-buffer itself; every other surface has none; and no callback
\* (write_pixels, flip, bit_blt, get_attached or a creation) changes the
\* back-buffer, width or height of a surface that exists.
C14_PrimaryOwnsOneBack ==
  [][/\ \A i \in 1..Len(surfaces') :
          LET s == surfaces'[i] IN
          /\ s.primary
               => /\ s.back # Undefined
                  /\ s.back[1] \in (1..Len(surfaces')) \ {i}
                  /\ LET b == surfaces'[s.back[1]] IN
                     /\ b.width = s.width /\ b.height = s.height
                     /\ ~b.primary /\ b.back = Undefined
                  /\ \A j \in (1..Len(surfaces')) \ {i} : surfaces'[j].back # s.back
          /\ ~s.primary => s.back = Undefined
     /\ \A i \in 1..Len(surfaces) :
          /\ i <= Len(surfaces')
          /\ surfaces'[i].back = surfaces[i].back
          /\ surfaces'[i].primary = surfaces[i].primary
          /\ surfaces'[i].width = surfaces[i].width
          /\ surfaces'[i].height = surfaces[i].height]_vars

\* A primary surface has just been flipped after its back-buffer was drawn
\* on.
C14_Witness ==
  /\ last.op = "flip" /\ last.ret = "none"
  /\ \E i \in 1..Len(surfaces) :
       /\ surfaces[i].primary
       /\ surfaces[i].width = 2
       /\ surfaces[surfaces[i].back[1]].pixels # Filled(surfaces[i].width, surfaces[i].height)

\* C15: get_attached and flip on a surface constructed without primary fail
\* (they throw), and a failing get_attached or flip changes no surface.
C15_NoBackBufferFails ==
  [][/\ \A i \in 1..Len(surfaces) :
          ~surfaces[i].primary
            => /\ get_attached(Display, i) = Result(Display, TRUE, 0)
               /\ flip(Display, i) = Result(Display, TRUE, 0)
     /\ (last'.op \in {"get_attached", "flip"} /\ last'.ret = "threw")
          => UNCHANGED <<surfaces, windows>>]_vars

\* A flip has just failed while a surface without back-buffer holds pixels
\* the guest wrote.
C15_Witness ==
  /\ last.op = "flip" /\ last.ret = "threw"
  /\ \E i \in 1..Len(surfaces) :
       /\ ~surfaces[i].primary
       /\ surfaces[i].pixels # Filled(surfaces[i].width, surfaces[i].height)

\* C16 (as claimed): for every pixel pattern of the primary's size,
\* write_pixels(pattern) on get_attached(primary) followed by flip(primary)
\* makes the primary's pixels equal the pattern byte for byte, and the flip
\* leaves the back-buffer as it was.
C16_FlipShowsPattern ==
  \A p \in 1..Len(surfaces) : \A pattern \in Buffers :
    (surfaces[p].primary /\ Len(pattern) = ByteLength(surfaces[p]))
      => LET a == get_attached(Display, p)
             w == write_pixels(a.st, a.ref, pattern)
             f == flip(w.st, p)
         IN /\ ~a.threw /\ ~w.threw /\ ~f.threw
            /\ f.st.surfaces[p].pixels = pattern
            /\ f.st.surfaces[a.ref] = w.st.surfaces[a.ref]

\* C17 (as claimed): write_pixels fails whenever the buffer's length differs
\* from width * height * bytesPerPixel, too short as well as too long, and
\* the failing call leaves the surface's pixels unchanged.
C17_SizeMismatchFails ==
  \A i \in 1..Len(surfaces) : \A pixels \in Buffers :
    Len(pixels) # ByteLength(surfaces[i])
      => write_pixels(Display, i, pixels) = Result(Display, TRUE, 0)

\* C18: no two windows of a session share a key; windows are never removed
\* or renumbered; and create_window returns the window it has just created,
\* whose key no earlier window has.
C18_WindowIdsUnique ==
  [][/\ \A j, k \in 1..Len(windows') :
          j # k => windows'[j].key # windows'[k].key
     /\ \A k \in 1..Len(windows) :
          k <= Len(windows') /\ windows'[k].key = windows[k].key
     /\ LET r == create_window(Display) IN
        /\ ~r.threw
        /\ r.ref = Len(windows) + 1
        /\ Len(r.st.windows) = r.ref
        /\ \A k \in 1..Len(windows) :
             r.st.windows[k] = windows[k] /\ windows[k].key # r.st.windows[r.ref].key
     /\ last'.op = "create_window" => Len(windows') = Len(windows) + 1]_vars

\* A second window has just been created.
C18_Witness ==
  /\ last.op = "create_window" /\ last.ret = "none"
  /\ Len(windows) >= 2

\* C19 (as claimed): while the driver is running towards a one-shot
\* breakpoint, every step boundary reported at its address (by a batch cut
\* short there or by a step of the step button), with exitCode unset, ends
\* continuous running: no such step consumes the one-shot and leaves the
\* driver running on.
C19_RunToStopsAtTarget ==
  [][(/\ running # 0 /\ exitCode' = Undefined
      /\ OneShotAt(breakpoints, eip')
      /\ \/ last'.op = "step" /\ last'.ret # "threw"
         \/ last'.op = "runFrame" /\ last'.ret # "threw" /\ ~last'.ranAll)
       => running' = 0]_vars

\* C20 (as claimed): run-to keeps the user's breakpoints.  In every state
\* and for every address a, after runTo(a) and the batch that stops at a,
\* every persistent breakpoint registered before (one at a included) is
\* registered as it was, disabled flag included, and is in the engine's
\* break set if it is enabled.
C20_RunToKeepsUserBreakpoints ==
  (program = "part_001" /\ cbPending = 0)
    => \A a \in Addrs, d \in Deltas :
         LET armed == runTo(Cur, a)
             out == [eip |-> a, exit |-> Undefined, fault |-> FALSE,
                     ranAll |-> FALSE, delta |-> d]
             hit == stepMany(armed, out)
         IN /\ hit.ret = "false"
            /\ \A b \in DOMAIN breakpoints :
                 ~breakpoints[b].oneShot
                   => /\ b \in DOMAIN hit.st.breakpoints
                      /\ hit.st.breakpoints[b] = breakpoints[b]
                      /\ ~breakpoints[b].disabled => b \in hit.st.engineBreaks

\* In the state s a one-shot is left at address a: in the table, or in the
\* engine's break set with no entry behind it.
StaleOneShot(s, a) ==
  \/ a \in DOMAIN s.breakpoints /\ s.breakpoints[a].oneShot
  \/ a \in s.engineBreaks /\ a \notin DOMAIN s.breakpoints

\* C21 (as claimed): no stale run-to breakpoint.  In every state and for
\* every address a, when the run started by runTo(a) ends without reaching
\* a (the stop button, or a turn whose batch stops at another breakpoint,
\* on exit or on a fault), the driver is not Running and the one-shot entry
\* at a is in neither the table nor the engine's break set.
C21_NoStaleRunTo ==
  (program = "part_001" /\ cbPending = 0)
    => \A a \in Addrs :
         LET armed == runTo(Cur, a)
             stopped == startStop(armed, FALSE)
         IN /\ stopped.running = 0 /\ ~StaleOneShot(stopped, a)
            /\ \A out \in BatchOutcomes(armed) :
                 LET turn == runFrame(armed, out).st IN
                 (turn.running = 0 /\ (out.fault \/ out.eip # a))
                   => ~StaleOneShot(turn, a)

\* C22 (as claimed): create_surface is total.  Every create_surface callback
\* returns without throwing and hands back a surface it has constructed;
\* called with primary set before any create_window, it leaves the window
\* list empty.
C22_CreateSurfaceTotal ==
  [][last'.op = "create_surface"
       => /\ last'.ret = "none"
          /\ Len(surfaces') > Len(surfaces)
          /\ windows = <<>> => windows' = <<>>]_vars

====
